---- MODULE Spec2Model ----
(***************************************************************************)
(* The regular-file data path of osfs (src/file.c): osfs_read and          *)
(* osfs_write over one storage region of fixed-size blocks, with the block *)
(* allocator, the user-space copy primitives, the clock and llseek as the  *)
(* collaborators the two handlers call.                                    *)
(***************************************************************************)
EXTENDS Integers, Sequences, FiniteSets, TLC

(* ------------------------------------------------------------------ *)
(* Sizes.  The block size and the widths of the C types are scaled     *)
(* down; the order between them is the one of the build:               *)
(* BLOCK_SIZE < 2^32 <= INT_MAX + 1 < 2^64 becomes                     *)
(* BLOCK_SIZE < U32_MOD <= COPY_MAX + 1 < SIZE_MOD.                    *)
(* ------------------------------------------------------------------ *)
BLOCK_SIZE == 2

\* bits of size_t
SIZE_BITS == 5

\* bits of uint32_t
U32_BITS == 3

EFAULT == -14

SIZE_MOD == 2 ^ SIZE_BITS

U32_MOD == 2 ^ U32_BITS

\* the largest length a user copy accepts (INT_MAX in check_copy_size)
COPY_MAX == 2 ^ (SIZE_BITS - 1) - 1

\* positions a caller hands in: inside the block, at its end, beyond it
MaxPos == BLOCK_SIZE + 1

\* lengths a caller asks for: up to more than a block
MaxLen == BLOCK_SIZE + 1

Files == {1, 2}

\* the block indices of the storage region
Blocks == {0, 1}

\* the values of the clock
Times == {0, 1}

\* the user buffers a caller writes from: buffer k holds k+1, k+2, ... so
\* that every byte of a buffer tells its index
BufferTags == {10}

\* the content of the storage region before any write
STALE == 0

Addrs == {b * BLOCK_SIZE + o : b \in Blocks, o \in 0 .. (BLOCK_SIZE - 1)}

UserBufs == {[i \in 1 .. n |-> k + i] : k \in BufferTags, n \in 0 .. MaxLen}

VARIABLES osfs_inode, inode, ppos, data_blocks, block_bitmap, clock, open, last

vars == <<osfs_inode, inode, ppos, data_blocks, block_bitmap, clock, open, last>>

(* ------------------------------------------------------------------ *)
(* Arithmetic of the C types                                           *)
(* ------------------------------------------------------------------ *)
\* size_t arithmetic: loff_t + size_t and BLOCK_SIZE - *ppos stored in a size_t
ToSizeT(x) == x % SIZE_MOD

\* the cast (uint32_t)*ppos
ToU32(x) == x % U32_MOD

Max(a, b) == IF a >= b THEN a ELSE b

Min(a, b) == IF a <= b THEN a ELSE b

(* ------------------------------------------------------------------ *)
(* Collaborators                                                       *)
(* ------------------------------------------------------------------ *)
\* copy_to_user / copy_from_user return non-zero when the user buffer is
\* inaccessible (bad) and bytes were asked for, or the length is not a
\* length a user copy accepts (a wrapped size_t).
CopyFails(n, bad) == n > COPY_MAX \/ (bad /\ n > 0)

\* the address without the block's offset
DataBlockAddr_NoBlock(blk, pos) == pos

\* sb_info->data_blocks + blk * BLOCK_SIZE + pos
DataBlockAddr(blk, pos) == blk * BLOCK_SIZE + pos

\* the bytes copy_to_user delivers: n bytes of the region from address a
copy_to_user(a, n) ==
    [i \in 1 .. n |-> IF (a + i - 1) \in Addrs THEN data_blocks[a + i - 1] ELSE STALE]

\* the region after copy_from_user stored the first n bytes of src at address a
copy_from_user(a, src, n) ==
    [x \in Addrs |-> IF x >= a /\ x < a + n /\ (x - a + 1) \in DOMAIN src
                     THEN src[x - a + 1] ELSE data_blocks[x]]

\* osfs_alloc_data_block(sb_info, &i_block): the outcomes of one call.  With
\* no free block the call fails and leaves *block_no alone; otherwise it
\* hands out one free block and marks it used.
osfs_alloc_data_block(cur) ==
    IF block_bitmap = {}
    THEN {[res |-> "fail", blk |-> cur, free |-> block_bitmap]}
    ELSE {[res |-> "ok", blk |-> b, free |-> block_bitmap \ {b}] : b \in block_bitmap}

\* the record of a handler call: its inputs (f, the *ppos handed in, len,
\* for a write the source bytes) and its outputs (the return value, what the
\* copy primitive and the allocator did, for a read the bytes delivered)
Call(op, f, pos, len, ret, copy, data, alloc) ==
    [op |-> op, f |-> f, pos |-> pos, len |-> len, ret |-> ret,
     copy |-> copy, data |-> data, alloc |-> alloc]

(* ------------------------------------------------------------------ *)
(* Initial state: files as the inode layer creates them                *)
(* ------------------------------------------------------------------ *)
NewInode(nblocks) ==
    [i_block |-> 0, i_blocks |-> nblocks, i_size |-> 0, i_mtime |-> 0, i_ctime |-> 0]

InitVolume ==
    /\ osfs_inode \in [Files -> {NewInode(0), NewInode(1)}]
    /\ inode = [f \in Files |-> [i_size |-> 0, i_mtime |-> 0, i_ctime |-> 0]]
    /\ ppos = [f \in Files |-> 0]
    /\ data_blocks = [a \in Addrs |-> STALE]
    /\ block_bitmap \in SUBSET Blocks
    /\ clock = 0
    /\ last = Call("none", 0, 0, 0, 0, "none", <<>>, "none")

Init ==
    /\ InitVolume
    /\ open = {1}
    /\ osfs_inode[2] = NewInode(0)

(* ------------------------------------------------------------------ *)
(* osfs_read                                                           *)
(* ------------------------------------------------------------------ *)
\* osfs_read without the clamp of lines 33-34
ReadLen_NoClamp(pos, len, size) == len

\* lines 33-34: the length after clamping to i_size
ReadLen(pos, len, size) ==
    IF ToSizeT(pos + len) > size THEN ToSizeT(size - pos) ELSE len

\* lines 27-31: the two end-of-file returns
ReadAtEof(oi, pos) == oi.i_blocks = 0 \/ pos >= oi.i_size

\* osfs_read with line 40 (*ppos += len) moved before the copy of line 37
osfs_read_AdvanceFirst(f, pos, len, bad) ==
    LET oi == osfs_inode[f]
        n  == ReadLen(pos, len, oi.i_size)
        a  == DataBlockAddr(oi.i_block, pos)
    IN  /\ f \in open
        /\ IF ReadAtEof(oi, pos)
           THEN /\ last' = Call("read", f, pos, len, 0, "none", <<>>, "none")
                /\ ppos' = [ppos EXCEPT ![f] = pos]
           ELSE IF CopyFails(n, bad)
           THEN /\ last' = Call("read", f, pos, len, EFAULT, "fault", <<>>, "none")
                /\ ppos' = [ppos EXCEPT ![f] = pos + n]
           ELSE /\ last' = Call("read", f, pos, len, n, "ok", copy_to_user(a, n), "none")
                /\ ppos' = [ppos EXCEPT ![f] = pos + n]
        /\ UNCHANGED <<osfs_inode, inode, data_blocks, block_bitmap, clock, open>>

\* osfs_read refreshing the timestamps of the file it read, as osfs_write does
osfs_read_Stamps(f, pos, len, bad) ==
    LET oi == osfs_inode[f]
        n  == ReadLen(pos, len, oi.i_size)
        a  == DataBlockAddr(oi.i_block, pos)
    IN  /\ f \in open
        /\ IF ReadAtEof(oi, pos)
           THEN /\ last' = Call("read", f, pos, len, 0, "none", <<>>, "none")
                /\ ppos' = [ppos EXCEPT ![f] = pos]
                /\ UNCHANGED osfs_inode
           ELSE IF CopyFails(n, bad)
           THEN /\ last' = Call("read", f, pos, len, EFAULT, "fault", <<>>, "none")
                /\ ppos' = [ppos EXCEPT ![f] = pos]
                /\ UNCHANGED osfs_inode
           ELSE /\ last' = Call("read", f, pos, len, n, "ok", copy_to_user(a, n), "none")
                /\ ppos' = [ppos EXCEPT ![f] = pos + n]
                /\ osfs_inode' = [osfs_inode EXCEPT ![f].i_mtime = clock, ![f].i_ctime = clock]
        /\ UNCHANGED <<inode, data_blocks, block_bitmap, clock, open>>

osfs_read(f, pos, len, bad) ==
    LET oi == osfs_inode[f]
        n  == ReadLen(pos, len, oi.i_size)
        a  == DataBlockAddr(oi.i_block, pos)
    IN  /\ f \in open
        /\ IF ReadAtEof(oi, pos)
           THEN /\ last' = Call("read", f, pos, len, 0, "none", <<>>, "none")
                /\ ppos' = [ppos EXCEPT ![f] = pos]
           ELSE IF CopyFails(n, bad)
           THEN /\ last' = Call("read", f, pos, len, EFAULT, "fault", <<>>, "none")
                /\ ppos' = [ppos EXCEPT ![f] = pos]
           ELSE /\ last' = Call("read", f, pos, len, n, "ok", copy_to_user(a, n), "none")
                /\ ppos' = [ppos EXCEPT ![f] = pos + n]
        /\ UNCHANGED <<osfs_inode, inode, data_blocks, block_bitmap, clock, open>>

(* ------------------------------------------------------------------ *)
(* osfs_write                                                          *)
(* ------------------------------------------------------------------ *)
\* line 67: the allocator is called when i_block holds 0
NeedsBlock(oi) == oi.i_block = 0

\* lines 72-74 clipping one byte late
WriteLen_OffByOne(pos, len) ==
    IF ToSizeT(pos + len) > BLOCK_SIZE + 1 THEN ToSizeT(BLOCK_SIZE + 1 - pos) ELSE len

\* osfs_write without the clip of lines 72-74
WriteLen_NoClip(pos, len) == len

\* lines 72-74: the length after clipping to one block
WriteLen(pos, len) ==
    IF ToSizeT(pos + len) > BLOCK_SIZE THEN ToSizeT(BLOCK_SIZE - pos) ELSE len

\* line 85 as i_size += *ppos
NewSize_Accumulate(size, newpos) == size + ToU32(newpos)

\* line 85 as i_size = *ppos
NewSize_NoMax(size, newpos) == ToU32(newpos)

\* line 85: max(osfs_inode->i_size, (uint32_t)*ppos)
NewSize(size, newpos) == Max(size, ToU32(newpos))

\* osfs_write with lines 88-89 skipped when no byte was stored
osfs_write_StampIfBytes(f, pos, src, bad) ==
    LET oi  == osfs_inode[f]
        len == Len(src)
        n   == WriteLen(pos, len)
    IN  /\ f \in open
        /\ \E r \in (IF NeedsBlock(oi) THEN osfs_alloc_data_block(oi.i_block)
                     ELSE {[res |-> "none", blk |-> oi.i_block, free |-> block_bitmap]}) :
             /\ block_bitmap' = r.free
             /\ IF CopyFails(n, bad)
                THEN /\ osfs_inode' = [osfs_inode EXCEPT ![f].i_block = r.blk]
                     /\ ppos' = [ppos EXCEPT ![f] = pos]
                     /\ last' = Call("write", f, pos, len, EFAULT, "fault", src, r.res)
                     /\ UNCHANGED <<inode, data_blocks>>
                ELSE LET size == NewSize(oi.i_size, pos + n)
                     IN  /\ data_blocks' = copy_from_user(DataBlockAddr(r.blk, pos), src, n)
                         /\ ppos' = [ppos EXCEPT ![f] = pos + n]
                         /\ osfs_inode' = [osfs_inode EXCEPT
                                ![f].i_block = r.blk, ![f].i_size = size,
                                ![f].i_mtime = IF n > 0 THEN clock ELSE oi.i_mtime,
                                ![f].i_ctime = IF n > 0 THEN clock ELSE oi.i_ctime]
                         /\ inode' = [inode EXCEPT ![f] =
                                [i_size |-> size, i_mtime |-> clock, i_ctime |-> clock]]
                         /\ last' = Call("write", f, pos, len, n, "ok", src, r.res)
        /\ UNCHANGED <<clock, open>>

osfs_write(f, pos, src, bad) ==
    LET oi  == osfs_inode[f]
        len == Len(src)
        n   == WriteLen(pos, len)
    IN  /\ f \in open
        /\ \E r \in (IF NeedsBlock(oi) THEN osfs_alloc_data_block(oi.i_block)
                     ELSE {[res |-> "none", blk |-> oi.i_block, free |-> block_bitmap]}) :
             /\ block_bitmap' = r.free
             /\ IF CopyFails(n, bad)
                THEN /\ osfs_inode' = [osfs_inode EXCEPT ![f].i_block = r.blk]
                     /\ ppos' = [ppos EXCEPT ![f] = pos]
                     /\ last' = Call("write", f, pos, len, EFAULT, "fault", src, r.res)
                     /\ UNCHANGED <<inode, data_blocks>>
                ELSE LET size == NewSize(oi.i_size, pos + n)
                     IN  /\ data_blocks' = copy_from_user(DataBlockAddr(r.blk, pos), src, n)
                         /\ ppos' = [ppos EXCEPT ![f] = pos + n]
                         /\ osfs_inode' = [osfs_inode EXCEPT
                                ![f].i_block = r.blk, ![f].i_size = size,
                                ![f].i_mtime = clock, ![f].i_ctime = clock]
                         /\ inode' = [inode EXCEPT ![f] =
                                [i_size |-> size, i_mtime |-> clock, i_ctime |-> clock]]
                         /\ last' = Call("write", f, pos, len, n, "ok", src, r.res)
        /\ UNCHANGED <<clock, open>>

(* ------------------------------------------------------------------ *)
(* Time passing, and the callers.  *ppos is an in/out parameter: the   *)
(* caller hands in the position it chose (the session's cursor after   *)
(* llseek, or the offset of a positioned call) and ppos[f] holds the   *)
(* value the handler left in it.                                       *)
(* ------------------------------------------------------------------ *)
Tick ==
    /\ clock + 1 \in Times
    /\ clock' = clock + 1
    /\ UNCHANGED <<osfs_inode, inode, ppos, data_blocks, block_bitmap, open, last>>

\* the file-operation table: .read and .write called with the caller's inputs
CallRead ==
    \E f \in open, p \in 0 .. MaxPos, len \in 0 .. MaxLen, bad \in BOOLEAN :
        osfs_read(f, p, len, bad)

CallWrite ==
    \E f \in open, p \in 0 .. MaxPos, src \in UserBufs, bad \in BOOLEAN :
        osfs_write(f, p, src, bad)

Next == CallRead \/ CallWrite \/ Tick

Spec == Init /\ [][Next]_vars

\* two files, each with its own open session, written in any interleaving
InitTwoFiles ==
    /\ InitVolume
    /\ open = Files
    /\ block_bitmap = Blocks
    /\ \A f \in Files : osfs_inode[f] = NewInode(1)

\* the writers of the two files: one byte, or more bytes than a block holds,
\* from accessible buffers
CallWriteEither ==
    \E f \in open, p \in 0 .. MaxPos :
        \E src \in {b \in UserBufs : Len(b) \in {1, MaxLen}} :
            osfs_write(f, p, src, FALSE)

NextWrites == CallWriteEither \/ Tick

SpecTwoFiles == InitTwoFiles /\ [][NextWrites]_vars

\* a session that never seeks: every call is handed the cursor the call
\* before left, starting anywhere in [0, BLOCK_SIZE]
InitCursor ==
    /\ osfs_inode \in [Files -> {NewInode(0), NewInode(1)}]
    /\ osfs_inode[2] = NewInode(0)
    /\ inode = [f \in Files |-> [i_size |-> 0, i_mtime |-> 0, i_ctime |-> 0]]
    /\ ppos \in [Files -> 0 .. BLOCK_SIZE]
    /\ ppos[2] = 0
    /\ data_blocks = [a \in Addrs |-> STALE]
    /\ block_bitmap \in SUBSET Blocks
    /\ clock = 0
    /\ last = Call("none", 0, 0, 0, 0, "none", <<>>, "none")
    /\ open = {1}

ReadAtCursor ==
    \E f \in open, len \in 0 .. MaxLen, bad \in BOOLEAN :
        osfs_read(f, ppos[f], len, bad)

WriteAtCursor ==
    \E f \in open, src \in UserBufs, bad \in BOOLEAN :
        osfs_write(f, ppos[f], src, bad)

NextCursor == ReadAtCursor \/ WriteAtCursor \/ Tick

SpecCursor == InitCursor /\ [][NextCursor]_vars

\* a caller that wants to write a whole buffer starting at position 0: it
\* calls write, and after a short write calls write again for the remainder
\* at the cursor the call left, until the last byte is written or a call
\* returns an error
RetryStopped == last.op = "write" /\ (last.ret < 0 \/ last.ret = last.len)

RetryStart ==
    /\ last.op = "none"
    /\ \E f \in open, src \in UserBufs, bad \in BOOLEAN : osfs_write(f, 0, src, bad)

RetryRemainder ==
    /\ last.op = "write" /\ ~RetryStopped
    /\ \E bad \in BOOLEAN :
          osfs_write(last.f, ppos[last.f],
                     SubSeq(last.data, last.ret + 1, last.len), bad)

NextRetry == RetryStart \/ RetryRemainder \/ Tick

SpecRetry == Init /\ [][NextRetry]_vars

TypeOK ==
    /\ \A f \in Files : osfs_inode[f].i_block \in Blocks /\ ppos[f] \in 0 .. (MaxPos + MaxLen)
    /\ block_bitmap \subseteq Blocks
    /\ clock \in Times

(* ------------------------------------------------------------------ *)
(* Properties.  last is the most recent handler call; a read changes   *)
(* no metadata and no storage, so the state after a read shows what    *)
(* the read saw.                                                       *)
(* ------------------------------------------------------------------ *)
IsRead == last.op = "read"

IsWrite == last.op = "write"

\* the metadata record of the file of the most recent call
LastInode == osfs_inode[last.f]

\* byte at offset o of block blk of the storage region
BlockByte(blk, o) == data_blocks[blk * BLOCK_SIZE + o]

\* C1: a successful write of B at position p with p + len(B) <= BLOCK_SIZE,
\* followed at once by a read of len(B) bytes at position p whose copy does
\* not fault, returns len(B) bytes and these are B -- for any file, a file
\* that never had a block included.
C1_RoundTrip ==
    [][(/\ IsWrite /\ last.ret >= 0 /\ last.pos + last.len <= BLOCK_SIZE
        /\ last'.op = "read" /\ last'.f = last.f
        /\ last'.pos = last.pos /\ last'.len = last.len
        /\ last'.copy # "fault")
       => (last'.ret = last.len /\ last'.data = last.data)]_vars

\* C2: a read of a file whose block_index is unallocated (i_block = 0), or at
\* a position >= the recorded size, returns 0 and hands the cursor back
\* unchanged.
C2_ReadAtEndOfFile ==
    (IsRead /\ (LastInode.i_block = 0 \/ last.pos >= LastInode.i_size))
        => (last.ret = 0 /\ ppos[last.f] = last.pos)

\* C3: for a file with an assigned block and 0 <= position < size, a read
\* whose copy succeeds returns min(len, size - position) bytes, they are the
\* bytes at offsets [position, position + count) of the file's block, and
\* the cursor has advanced by that count.
C3_ReadClampsToSize ==
    (IsRead /\ last.copy = "ok" /\ LastInode.i_block # 0
            /\ 0 <= last.pos /\ last.pos < LastInode.i_size)
        => LET count == Min(last.len, LastInode.i_size - last.pos)
           IN  /\ last.ret = count
               /\ Len(last.data) = count
               /\ \A i \in 1 .. count :
                     last.data[i] = BlockByte(LastInode.i_block, last.pos + i - 1)
               /\ ppos[last.f] = last.pos + count

\* a read that was clamped: it asked for more than size - position and got
\* the bytes up to size
C3_Witness ==
    /\ IsRead /\ last.copy = "ok" /\ LastInode.i_block # 0
    /\ last.len > LastInode.i_size - last.pos
    /\ last.ret = LastInode.i_size - last.pos
    /\ last.ret > 0
    /\ last.pos > 0

C5_WriteClipsToBlock ==
    (IsWrite /\ last.copy = "ok" /\ 0 <= last.pos /\ last.pos < BLOCK_SIZE)
        => LET count == Min(last.len, BLOCK_SIZE - last.pos)
           IN  /\ last.ret = count
               /\ \A i \in 1 .. count :
                     BlockByte(LastInode.i_block, last.pos + i - 1) = last.data[i]
               /\ ppos[last.f] = last.pos + count
               /\ (last.pos + last.len >= BLOCK_SIZE => LastInode.i_size = BLOCK_SIZE)

\* a short write: more bytes asked for than the block has left after position
C5_Witness ==
    /\ IsWrite /\ last.copy = "ok"
    /\ last.pos > 0 /\ last.pos < BLOCK_SIZE
    /\ last.pos + last.len > BLOCK_SIZE
    /\ last.ret = BLOCK_SIZE - last.pos
    /\ LastInode.i_size = BLOCK_SIZE

\* C6: a write called with position >= BLOCK_SIZE fails with a boundary
\* error (an error that is not the fault error), copies nothing and does not
\* advance the cursor.
C6_WritePastCapacityRejected ==
    (IsWrite /\ last.pos >= BLOCK_SIZE)
        => (/\ last.ret < 0 /\ last.ret # EFAULT
            /\ last.copy = "none"
            /\ ppos[last.f] = last.pos)

\* C7: when the copy primitive fails during a write, the write returns the
\* fault error and block_index, size, modified_at, changed_at and the cursor
\* are what they were before the call.
C7_WriteFaultLeavesStateUntouched ==
    [][(last'.op = "write" /\ last'.copy = "fault")
       => (/\ last'.ret = EFAULT
           /\ osfs_inode'[last'.f] = osfs_inode[last'.f]
           /\ ppos'[last'.f] = last'.pos)]_vars

\* C8: a write that finds the allocator unable to supply a block fails with
\* an error, copies no bytes, and leaves block_index unallocated and size 0.
C8_AllocationFailureAbortsWrite ==
    (IsWrite /\ last.alloc = "fail")
        => (/\ last.ret < 0
            /\ last.copy = "none"
            /\ LastInode.i_block = 0
            /\ LastInode.i_size = 0)

\* C9: after any sequence of reads and writes at any positions >= 0 (at and
\* beyond BLOCK_SIZE too) and any lengths, every file's size is <= BLOCK_SIZE.
C9_SizeBound == \A f \in Files : osfs_inode[f].i_size <= BLOCK_SIZE

\* a full file, and a write with bytes to store called beyond the block
C9_Witness ==
    /\ IsWrite /\ last.pos > BLOCK_SIZE /\ last.len > 0
    /\ LastInode.i_size = BLOCK_SIZE

\* C10: in every reachable state, block_index unallocated implies size = 0.
C10_UnallocatedImpliesEmpty ==
    \A f \in Files : osfs_inode[f].i_block = 0 => osfs_inode[f].i_size = 0

\* C11: every byte offset in [0, size) of a file's block has been stored by
\* an earlier successful write to the file (the storage region holds STALE
\* wherever no write stored a byte, and only this file is written).
C11_ValidData ==
    \A f \in open : \A o \in 0 .. (osfs_inode[f].i_size - 1) :
        (osfs_inode[f].i_block * BLOCK_SIZE + o) \in Addrs
            => BlockByte(osfs_inode[f].i_block, o) # STALE

\* C12: a write that returns a byte count sets size to max(size before,
\* position before + bytes written), and no step of any kind lowers a
\* file's size.
C12_SizeOnlyGrows ==
    [][/\ \A f \in Files : osfs_inode'[f].i_size >= osfs_inode[f].i_size
       /\ (last'.op = "write" /\ last'.ret >= 0)
            => osfs_inode'[last'.f].i_size =
                   Max(osfs_inode[last'.f].i_size, last'.pos + last'.ret)]_vars

\* an overwrite inside [0, size): bytes were stored and size is beyond them
C12_Witness ==
    /\ IsWrite /\ last.copy = "ok" /\ last.ret > 0
    /\ last.pos + last.ret < LastInode.i_size

\* C13: a read, whatever its outcome, changes no metadata (block_index, size,
\* modified_at, changed_at), no byte of the storage region and nothing of
\* the allocator's state.
C13_ReadFrame ==
    [][last'.op = "read"
       => (/\ osfs_inode' = osfs_inode
           /\ inode' = inode
           /\ data_blocks' = data_blocks
           /\ block_bitmap' = block_bitmap)]_vars

\* a read that delivered bytes, made after the clock moved past the file's
\* modification time
C13_Witness ==
    /\ IsRead /\ last.copy = "ok" /\ last.ret > 0
    /\ LastInode.i_mtime < clock

\* the addresses of block blk
BlockAddrs(blk) == {blk * BLOCK_SIZE + o : o \in 0 .. (BLOCK_SIZE - 1)}

\* C14: when two files hold distinct block indices, a write to one of them
\* changes storage bytes only inside the block the writing file holds, and
\* changes no byte of the other file's block nor the other file's metadata.
C14_BlockIsolation ==
    [][\A f \in Files, g \in Files :
          (/\ f # g
           /\ osfs_inode[f].i_block # osfs_inode[g].i_block
           /\ last'.op = "write" /\ last'.f = f)
          => (/\ \A a \in Addrs : data_blocks'[a] # data_blocks[a]
                     => a \in BlockAddrs(osfs_inode'[f].i_block)
              /\ \A a \in BlockAddrs(osfs_inode[g].i_block) \cap Addrs :
                     data_blocks'[a] = data_blocks[a]
              /\ osfs_inode'[g] = osfs_inode[g]
              /\ inode'[g] = inode[g])]_vars

\* both files hold data in blocks of their own, and the latest call stored
\* bytes for one of them
C14_Witness ==
    /\ IsWrite /\ last.copy = "ok" /\ last.ret > 0
    /\ osfs_inode[1].i_block # osfs_inode[2].i_block
    /\ osfs_inode[1].i_size > 0 /\ osfs_inode[2].i_size > 0
    /\ BlockByte(osfs_inode[1].i_block, 0) # STALE
    /\ BlockByte(osfs_inode[2].i_block, 0) # STALE

\* C15: when the copy primitive fails during a read of a non-empty range,
\* the read returns the fault error and the cursor is the one handed in.
C15_ReadFault ==
    (IsRead /\ last.copy = "fault")
        => (last.ret = EFAULT /\ ppos[last.f] = last.pos)

\* a faulting read of bytes the file holds
C15_Witness ==
    /\ IsRead /\ last.copy = "fault" /\ last.len > 0
    /\ last.pos < LastInode.i_size
    /\ LastInode.i_blocks # 0

\* C16: a write that returns a byte count leaves modified_at and changed_at
\* at the clock value of the call, and no other step (a read, a failed
\* write, time passing, a write to another file) changes either timestamp.
C16_TimestampsTrackWrites ==
    [][/\ (clock' = clock /\ last'.op = "write" /\ last'.ret >= 0)
            => (/\ osfs_inode'[last'.f].i_mtime = clock
                /\ osfs_inode'[last'.f].i_ctime = clock
                /\ inode'[last'.f].i_mtime = clock
                /\ inode'[last'.f].i_ctime = clock)
       /\ \A f \in Files :
            (\/ osfs_inode'[f].i_mtime # osfs_inode[f].i_mtime
             \/ osfs_inode'[f].i_ctime # osfs_inode[f].i_ctime
             \/ inode'[f].i_mtime # inode[f].i_mtime
             \/ inode'[f].i_ctime # inode[f].i_ctime)
            => (clock' = clock /\ last'.op = "write" /\ last'.ret >= 0 /\ last'.f = f)]_vars

\* a write that stored no byte (count 0) after the clock moved: the
\* timestamps are the new clock value
C16_Witness ==
    /\ IsWrite /\ last.copy = "ok" /\ last.ret = 0
    /\ clock > 0
    /\ LastInode.i_mtime = clock /\ LastInode.i_ctime = clock

\* C17: the retry loop stops.  The loop goes on as long as calls return a
\* count short of the remainder, so it stops exactly when every such call
\* stores at least one byte: a call that returns 0 for a non-empty remainder
\* leaves cursor and remainder as they were and is repeated for ever.
C17_RetryLoopStops ==
    (IsWrite /\ ~RetryStopped) => last.ret > 0

====
